---- MODULE Spec2Model ----
(***************************************************************************)
(* Model of the rs-lisp rule-expression evaluator: the Lexer               *)
(* (src/src/ast/token.rs), the Parser and the AST evaluator                *)
(* (src/src/ast.rs).                                                       *)
(*                                                                         *)
(* Strings are sequences of one-character strings.  A Result is a record  *)
(* with k = "Ok" or k = "Err"; a Rust panic (an uncontrolled fault that    *)
(* unwinds the whole call) is the third outcome k = "Panic"; a slot that   *)
(* holds nothing yet is the record Nothing.                                *)
(***************************************************************************)
EXTENDS Integers, Sequences, FiniteSets, TLC

VARIABLES
    overflow_checks, \* whether the build panics on integer overflow (debug) or wraps (release)
    rule,        \* the rule expression the caller wrote: a tree, or the words of a text
                 \* (Nothing when an AST is built directly or the lexer is driven directly)
    chars,       \* Lexer.chars: the characters of the rule content
    cur_step,    \* Lexer.cur_step: index (0-based) of the last character read, -1 at creation
    peek,        \* Lexer.peek: the last character read, NoChar at creation
    look_token,  \* Parser.look_token: the one-token lookahead, Nothing at creation
    ast,         \* what parse() returned (Nothing before the call), or a directly built AST
    ctx,         \* the context handed to the last eval call (the empty map before the first)
    value,       \* what the last eval call returned (Nothing before the first)
    again,       \* the last eval call was handed the same context as the call before it
    from_step,   \* cur_step when the last scan() called directly on the lexer began
    scanned,     \* what that scan() returned (Nothing before the first)
    tokens       \* the tokens the scan() calls made directly on the lexer have returned

vars ==
    <<overflow_checks, rule, chars, cur_step, peek, look_token, ast, ctx, value, again,
      from_step, scanned, tokens>>

\* Option<char>::None
NoChar == "None"
\* an empty slot
Nothing == [k |-> "None"]

(***************************************************************************)
(* Bounds of the model.                                                    *)
(***************************************************************************)
\* i64 is modelled as a two's-complement integer of IntBits bits
IntBits == 24
\* largest number of children of a directly built operator node
MaxArgs == 3
\* largest number of nodes (operators and leaves) of a rule expression given to the parser
MaxNodes == 4

I64Min == -(2 ^ (IntBits - 1))
I64Max == (2 ^ (IntBits - 1)) - 1

(***************************************************************************)
(* Value (ast.rs 8-13): INT(i64) | BOOL(bool) | STR(String).  Each variant  *)
(* has its own payload field, so that values of different variants are     *)
(* different records.                                                      *)
(***************************************************************************)
IntV(i) == [tag |-> "INT", i |-> i]
BoolV(b) == [tag |-> "BOOL", b |-> b]
StrV(s) == [tag |-> "STR", s |-> s]

\* #[derive(PartialEq)] on Value: same variant and same payload
ValueEq(a, b) ==
    /\ a.tag = b.tag
    /\ CASE a.tag = "INT" -> a.i = b.i
         [] a.tag = "BOOL" -> a.b = b.b
         [] a.tag = "STR" -> a.s = b.s

Ok(v) == [k |-> "Ok", val |-> v]
Err(c) == [k |-> "Err", code |-> c]
Panic(w) == [k |-> "Panic", why |-> w]

(***************************************************************************)
(* AST nodes.  An operator node holds its children in args; a leaf holds   *)
(* the lexeme of its token.                                                *)
(***************************************************************************)
OpKinds == {"And", "Or", "Mod", "In", "Equals"}
OpNode(kind, args) == [kind |-> kind, args |-> args]
Leaf(kind, lexeme) == [kind |-> kind, lexeme |-> lexeme]

IsDigit(c) == c \in {"0", "1", "2", "3", "4", "5", "6", "7", "8", "9"}

DigitVal(c) ==
    CASE c = "0" -> 0 [] c = "1" -> 1 [] c = "2" -> 2 [] c = "3" -> 3 [] c = "4" -> 4
      [] c = "5" -> 5 [] c = "6" -> 6 [] c = "7" -> 7 [] c = "8" -> 8 [] c = "9" -> 9

\* stands for the one character U+00BE (the fraction three quarters): a character
\* of a numeric category that is no decimal digit
ThreeQuarters == "3/4"

\* char::is_numeric: the general categories Nd, Nl, No
is_numeric(c) == IsDigit(c) \/ c = ThreeQuarters

RECURSIVE ParseDigits(_, _, _, _)
\* the digits s[i..] accumulated onto acc (subtracted when neg); not ok on a
\* non-digit or when the value leaves the i64 range
ParseDigits(s, i, acc, neg) ==
    IF i > Len(s) THEN [ok |-> TRUE, v |-> acc]
    ELSE IF ~IsDigit(s[i]) THEN [ok |-> FALSE, v |-> 0]
    ELSE LET n == IF neg THEN 10 * acc - DigitVal(s[i]) ELSE 10 * acc + DigitVal(s[i])
         IN  IF n < I64Min \/ n > I64Max THEN [ok |-> FALSE, v |-> 0]
             ELSE ParseDigits(s, i + 1, n, neg)

\* str::parse::<i64>: an optional sign, then one or more decimal digits, in range
ParseI64(s) ==
    IF s = <<>> THEN [ok |-> FALSE, v |-> 0]
    ELSE IF s[1] \in {"+", "-"}
         THEN IF Len(s) = 1 THEN [ok |-> FALSE, v |-> 0]
              ELSE ParseDigits(s, 2, 0, s[1] = "-")
         ELSE ParseDigits(s, 1, 0, FALSE)

\* the remainder the i64 operator % computes for b # 0: truncated, sign of a
Rem(a, b) ==
    LET m == IF b < 0 THEN -b ELSE b
    IN  IF a >= 0 THEN a % m ELSE -((-a) % m)

\* char::to_lowercase on the letters the model uses
ToLowerChar(c) ==
    CASE c = "T" -> "t" [] c = "R" -> "r" [] c = "U" -> "u" [] c = "E" -> "e"
      [] OTHER -> c

ToLower(s) == [i \in 1..Len(s) |-> ToLowerChar(s[i])]

(***************************************************************************)
(* The evaluator.  Every eval returns [r, seen]: r is the Result the Rust  *)
(* method returns (or the panic it ends in), seen lists the (1-based)      *)
(* positions of the node's own children whose eval it called, in call      *)
(* order.                                                                  *)
(***************************************************************************)
RECURSIVE eval(_, _)
RECURSIVE And_loop(_, _, _, _)
RECURSIVE Or_loop(_, _, _, _)
RECURSIVE In_loop(_, _, _, _, _, _)

Ret(r, seen) == [r |-> r, seen |-> seen]

\* a match arm that returns nothing: the loop goes on to the next child
Continue == [k |-> "Continue"]

\* And::eval taking only Bool(false), not Int(0), as false
And_match_bool_only(v) ==
    CASE v.tag = "INT" -> Continue
      [] v.tag = "BOOL" -> IF ~v.b THEN Ok(BoolV(FALSE)) ELSE Continue
      [] OTHER -> Err("FORMAT_NOT_MATCH")

\* the match on a child's value in And::eval: "go on", or the value returned
And_match(v) ==
    CASE v.tag = "INT" -> IF v.i = 0 THEN Ok(BoolV(FALSE)) ELSE Continue
      [] v.tag = "BOOL" -> IF ~v.b THEN Ok(BoolV(FALSE)) ELSE Continue
      [] OTHER -> Err("FORMAT_NOT_MATCH")

And_loop(args, i, c, seen) ==
    IF i > Len(args) THEN Ret(Ok(BoolV(TRUE)), seen)
    ELSE LET e == eval(args[i], c).r
             s == Append(seen, i)
         IN  IF e.k # "Ok" THEN Ret(e, s)
             ELSE IF And_match(e.val) # Continue THEN Ret(And_match(e.val), s)
             ELSE And_loop(args, i + 1, c, s)

And_eval(node, c) == And_loop(node.args, 1, c, <<>>)

\* Or::eval with the truthiness of And mirrored: any nonzero Int, Bool(true)
Or_match_truthy(v) ==
    CASE v.tag = "INT" -> IF v.i # 0 THEN Ok(BoolV(TRUE)) ELSE Continue
      [] v.tag = "BOOL" -> IF v.b THEN Ok(BoolV(TRUE)) ELSE Continue
      [] OTHER -> Err("FORMAT_NOT_MATCH")

\* the match on a child's value in Or::eval
Or_match(v) ==
    CASE v.tag = "INT" -> IF v.i = 1 THEN Ok(BoolV(TRUE)) ELSE Continue
      [] v.tag = "BOOL" -> IF ~v.b THEN Ok(BoolV(TRUE)) ELSE Continue
      [] OTHER -> Err("FORMAT_NOT_MATCH")

Or_loop(args, i, c, seen) ==
    IF i > Len(args) THEN Ret(Ok(BoolV(FALSE)), seen)
    ELSE LET e == eval(args[i], c).r
             s == Append(seen, i)
         IN  IF e.k # "Ok" THEN Ret(e, s)
             ELSE IF Or_match(e.val) # Continue THEN Ret(Or_match(e.val), s)
             ELSE Or_loop(args, i + 1, c, s)

Or_eval(node, c) == Or_loop(node.args, 1, c, <<>>)

\* i1 % i2 on i64: panics on a zero divisor and on i64::MIN % -1
Mod_rem(i1, i2) ==
    IF i2 = 0 THEN Panic("remainder with a divisor of zero")
    ELSE IF i1 = I64Min /\ i2 = -1 THEN Panic("remainder with overflow")
    ELSE Ok(IntV(Rem(i1, i2)))

Mod_eval(node, c) ==
    IF Len(node.args) < 2 THEN Ret(Err("NOT_ENOUGH_ARGS"), <<>>)
    ELSE LET arg0 == eval(node.args[1], c).r
         IN  IF arg0.k # "Ok" THEN Ret(arg0, <<1>>)
             ELSE LET arg1 == eval(node.args[2], c).r
                  IN  IF arg1.k # "Ok" THEN Ret(arg1, <<1, 2>>)
                      ELSE IF arg0.val.tag = "INT" /\ arg1.val.tag = "INT"
                           THEN Ret(Mod_rem(arg0.val.i, arg1.val.i), <<1, 2>>)
                           ELSE Ret(Err("ARG_NOT_CORRECT"), <<1, 2>>)

\* In::eval scanning up to and including the last child
In_last_all(len) == len

\* the last (1-based) child position In::eval compares: for i in 1..(len - 1), 0-based
In_last(len) == len - 1

\* an In::eval that takes a child's error for a value that does not match
In_loop_skips_errors(args, i, last, arg0, c, seen) ==
    IF i > last THEN Ret(Ok(BoolV(FALSE)), seen)
    ELSE LET e == eval(args[i], c).r
             s == Append(seen, i)
         IN  IF e.k # "Ok" THEN In_loop(args, i + 1, last, arg0, c, s)
             ELSE IF ValueEq(arg0, e.val) THEN Ret(Ok(BoolV(TRUE)), s)
             ELSE In_loop(args, i + 1, last, arg0, c, s)

In_loop(args, i, last, arg0, c, seen) ==
    IF i > last THEN Ret(Ok(BoolV(FALSE)), seen)
    ELSE LET e == eval(args[i], c).r
             s == Append(seen, i)
         IN  IF e.k # "Ok" THEN Ret(e, s)
             ELSE IF ValueEq(arg0, e.val) THEN Ret(Ok(BoolV(TRUE)), s)
             ELSE In_loop(args, i + 1, last, arg0, c, s)

In_eval(node, c) ==
    IF Len(node.args) <= 1 THEN Ret(Err("NOT_ENOUGH_ARGS"), <<>>)
    ELSE LET arg0 == eval(node.args[1], c).r
         IN  IF arg0.k # "Ok" THEN Ret(arg0, <<1>>)
             ELSE In_loop(node.args, 2, In_last(Len(node.args)), arg0.val, c, <<1>>)

\* Equals::eval comparing the payloads only, whatever the variants
Equals_eval_untyped(node, c) ==
    IF Len(node.args) < 2 THEN Ret(Err("NOT_ENOUGH_ARGS"), <<>>)
    ELSE LET arg0 == eval(node.args[1], c).r
         IN  IF arg0.k # "Ok" THEN Ret(arg0, <<1>>)
             ELSE LET arg1 == eval(node.args[2], c).r
                      p(v) == CASE v.tag = "INT" -> <<"i", v.i>>
                                [] v.tag = "BOOL" -> <<"i", IF v.b THEN 1 ELSE 0>>
                                [] v.tag = "STR" -> <<"s", v.s>>
                  IN  IF arg1.k # "Ok" THEN Ret(arg1, <<1, 2>>)
                      ELSE Ret(Ok(BoolV(p(arg0.val) = p(arg1.val))), <<1, 2>>)

Equals_eval(node, c) ==
    IF Len(node.args) < 2 THEN Ret(Err("NOT_ENOUGH_ARGS"), <<>>)
    ELSE LET arg0 == eval(node.args[1], c).r
         IN  IF arg0.k # "Ok" THEN Ret(arg0, <<1>>)
             ELSE LET arg1 == eval(node.args[2], c).r
                  IN  IF arg1.k # "Ok" THEN Ret(arg1, <<1, 2>>)
                      ELSE Ret(Ok(BoolV(ValueEq(arg0.val, arg1.val))), <<1, 2>>)

Num_eval(node, c) ==
    IF ~ParseI64(node.lexeme).ok THEN Ret(Err("EVAL_NUM_FAILED"), <<>>)
    ELSE Ret(Ok(IntV(ParseI64(node.lexeme).v)), <<>>)

Str_eval(node, c) == Ret(Ok(StrV(node.lexeme)), <<>>)

\* Var::eval reporting an absent name as an error
Var_eval_absent_is_error(node, c) ==
    IF node.lexeme \notin DOMAIN c THEN Ret(Err("OTHER"), <<>>)
    ELSE Ret(Ok(c[node.lexeme]), <<>>)

Var_eval(node, c) ==
    IF node.lexeme \notin DOMAIN c THEN Ret(Ok(BoolV(FALSE)), <<>>)
    ELSE Ret(Ok(c[node.lexeme]), <<>>)

Bool_eval(node, c) ==
    IF ToLower(node.lexeme) = <<"t", "r", "u", "e">> \/ ToLower(node.lexeme) = <<"1">>
    THEN Ret(Ok(BoolV(TRUE)), <<>>)
    ELSE Ret(Ok(BoolV(FALSE)), <<>>)

\* dyn Expr dispatch
eval(node, c) ==
    CASE node.kind = "And" -> And_eval(node, c)
      [] node.kind = "Or" -> Or_eval(node, c)
      [] node.kind = "Mod" -> Mod_eval(node, c)
      [] node.kind = "In" -> In_eval(node, c)
      [] node.kind = "Equals" -> Equals_eval(node, c)
      [] node.kind = "Num" -> Num_eval(node, c)
      [] node.kind = "Str" -> Str_eval(node, c)
      [] node.kind = "Var" -> Var_eval(node, c)
      [] node.kind = "Bool" -> Bool_eval(node, c)

(***************************************************************************)
(* The Lexer.  Its mutable state is the record [cur_step, peek]; chars is  *)
(* passed along.  Every operation returns the new state L and its Result   *)
(* r.  A token is [tag, lexeme].                                           *)
(***************************************************************************)
Token(tag, lexeme) == [tag |-> tag, lexeme |-> lexeme]
Lex(step, pk) == [cur_step |-> step, peek |-> pk]
LRet(L, r) == [L |-> L, r |-> r]

LowerLetters ==
    {"a", "b", "c", "d", "e", "f", "g", "h", "i", "j", "k", "l", "m",
     "n", "o", "p", "q", "r", "s", "t", "u", "v", "w", "x", "y", "z"}
UpperLetters ==
    {"A", "B", "C", "D", "E", "F", "G", "H", "I", "J", "K", "L", "M",
     "N", "O", "P", "Q", "R", "S", "T", "U", "V", "W", "X", "Y", "Z"}

\* Lexer::read: advance the cursor, then load peek or signal the end of the input
read(cs, L) ==
    LET step == L.cur_step + 1
    IN  IF step < Len(cs) THEN LRet(Lex(step, cs[step + 1]), Ok(TRUE))
        ELSE LRet(Lex(step, L.peek), Err("READ_TO_END"))

\* a back_read that steps back one character too far
back_read_before(cs, L, ori_step) == LRet(Lex(ori_step - 1, L.peek), Ok(TRUE))

\* a back_read that leaves the cursor where the failed match stopped
back_read_stay(cs, L, ori_step) == LRet(L, Ok(TRUE))

RECURSIVE back_read(_, _, _)
\* Lexer::back_read: step back to ori_step, reloading peek at every step
back_read(cs, L, ori_step) ==
    IF L.cur_step = ori_step THEN LRet(L, Ok(TRUE))
    ELSE LET step == L.cur_step - 1
         IN  IF step >= 0 /\ step < Len(cs)
             THEN back_read(cs, Lex(step, cs[step + 1]), ori_step)
             ELSE LRet(Lex(step, L.peek), Err("OTHER"))

\* Lexer::read_next, after its read: true (and peek blanked) when the character is c
read_next_k(rd, c) ==
    IF rd.r.k # "Ok" THEN rd
    ELSE IF rd.L.peek = c THEN LRet(Lex(rd.L.cur_step, " "), Ok(TRUE))
    ELSE LRet(rd.L, Ok(FALSE))

\* Lexer::read_next: read one character and compare it with c
read_next(cs, L, c) == read_next_k(read(cs, L), c)

RECURSIVE skip_blank_and_read(_, _)
\* the loop body of skip_blank_and_read after its read
skip_blank_k(cs, rd) ==
    IF rd.r.k # "Ok" THEN rd
    ELSE IF rd.L.peek = " " \/ rd.L.peek = "\t" THEN skip_blank_and_read(cs, rd.L)
    ELSE rd

\* Lexer::skip_blank_and_read: read until a character that is no space or tab
skip_blank_and_read(cs, L) == skip_blank_k(cs, read(cs, L))

RECURSIVE read_next_all(_, _, _, _)
\* after one read_next of the chain: stop at the first false or error
read_next_all_k(cs, rn, letters, i) ==
    IF rn.r.k # "Ok" THEN rn
    ELSE IF ~rn.r.val THEN rn
    ELSE read_next_all(cs, rn.L, letters, i + 1)

\* self.read_next(a)? && self.read_next(b)? && ...
read_next_all(cs, L, letters, i) ==
    IF i > Len(letters) THEN LRet(L, Ok(TRUE))
    ELSE read_next_all_k(cs, read_next(cs, L, letters[i]), letters, i)

\* the tag and spelling of the keyword scan() tries at each initial letter
KeywordAt(c) ==
    CASE c = "I" -> Token("IN", <<"I", "N">>)
      [] c = "M" -> Token("MOD", <<"M", "O", "D">>)
      [] c = "A" -> Token("AND", <<"A", "N", "D">>)
      [] c = "O" -> Token("OR", <<"O", "R">>)
      [] c = "E" -> Token("EQUALS", <<"E", "Q", "U", "A", "L", "S">>)

\* the else arm of a keyword match, after back_read: OTHER(peek)
other_after_back(b) ==
    IF b.r.k # "Ok" THEN b ELSE LRet(b.L, Ok(Token("OTHER", <<b.L.peek>>)))

\* a keyword arm of scan() after its read_next chain m
scan_keyword_k(cs, kw, ori_step, m) ==
    IF m.r.k # "Ok" THEN m
    ELSE IF m.r.val THEN LRet(m.L, Ok(kw))
    ELSE other_after_back(back_read(cs, m.L, ori_step))

\* a keyword arm of scan(): the operator token, or the cursor restored and OTHER
scan_keyword(cs, L) ==
    scan_keyword_k(cs, KeywordAt(L.peek), L.cur_step,
                   read_next_all(cs, L, Tail(KeywordAt(L.peek).lexeme), 1))

RECURSIVE to_string(_)
\* u32::to_string: the decimal text, no leading zeros
to_string(v) ==
    IF v < 10 THEN <<<<"0", "1", "2", "3", "4", "5", "6", "7", "8", "9">>[v + 1]>>
    ELSE Append(to_string(v \div 10),
                <<"0", "1", "2", "3", "4", "5", "6", "7", "8", "9">>[(v % 10) + 1])

\* u32 is modelled as an unsigned integer of U32Bits bits
U32Bits == 20
U32Max == (2 ^ U32Bits) - 1

\* v = 10 * v + digit on u32: on overflow a build with overflow checks panics,
\* a build without them wraps
num_acc(v, d, checks) ==
    IF 10 * v + d <= U32Max THEN Ok(10 * v + d)
    ELSE IF checks THEN Panic("arithmetic overflow")
    ELSE Ok((10 * v + d) % (U32Max + 1))

\* Num::create_with_token_and_val (token.rs): the lexeme must parse as an i64
num_token(lexeme) ==
    IF ParseI64(lexeme).ok THEN Ok(Token("NUM", lexeme)) ELSE Err("OTHER")

\* the digit loop after back_read pushed the non-digit back: the NUM token of v
num_after_back(b, v) ==
    IF b.r.k # "Ok" THEN b ELSE LRet(b.L, num_token(to_string(v)))

RECURSIVE scan_num(_, _, _, _)
\* a digit loop that emits the number when the input ends inside the run
scan_num_r_end_emits(cs, ori_step, v, rd, checks) ==
    IF rd.r = Err("READ_TO_END") THEN LRet(rd.L, num_token(to_string(v)))
    ELSE IF rd.r.k # "Ok" THEN rd
    ELSE IF is_numeric(rd.L.peek) THEN scan_num(cs, rd.L, v, checks)
    ELSE num_after_back(back_read(cs, rd.L, ori_step), v)

\* the digit loop after its read: go on at a numeric character, else push the
\* character back
scan_num_r(cs, ori_step, v, rd, checks) ==
    IF rd.r.k # "Ok" THEN rd
    ELSE IF is_numeric(rd.L.peek) THEN scan_num(cs, rd.L, v, checks)
    ELSE num_after_back(back_read(cs, rd.L, ori_step), v)

\* the digit loop after the accumulation
scan_num_k(cs, L, acc, checks) ==
    IF acc.k # "Ok" THEN LRet(L, acc)
    ELSE scan_num_r(cs, L.cur_step, acc.val, read(cs, L), checks)

\* peek.to_digit(10).unwrap(), then the accumulation: to_digit is None, and the
\* unwrap panics, at a numeric character that is no decimal digit
to_digit_acc(v, c, checks) ==
    IF IsDigit(c) THEN num_acc(v, DigitVal(c), checks)
    ELSE Panic("called Option::unwrap() on a None value")

\* the digit loop of scan(): accumulate the digit at peek, read on
scan_num(cs, L, v, checks) == scan_num_k(cs, L, to_digit_acc(v, L.peek, checks), checks)

RECURSIVE scan_var(_, _, _)
\* the identifier loop after its read
scan_var_k(cs, rd, id) ==
    IF rd.r.k # "Ok" THEN rd
    ELSE IF is_numeric(rd.L.peek) \/ rd.L.peek \in LowerLetters \/ rd.L.peek \in UpperLetters
         THEN scan_var(cs, rd.L, Append(id, rd.L.peek))
    ELSE IF rd.L.peek = "}" THEN LRet(rd.L, Ok(Token("VAR", id)))
    ELSE LRet(rd.L, Err("OTHER"))

\* the identifier loop of scan() after "${"
scan_var(cs, L, id) == scan_var_k(cs, read(cs, L), id)

\* every single-character token tagged OTHER
CharTag_all_other(c) == "OTHER"

\* the tag of a single character that starts no keyword, number or variable:
\* the parentheses have their own tags, anything else is OTHER
CharTag(c) ==
    IF c = "(" THEN "LEFT_BRACKET" ELSE IF c = ")" THEN "RIGHT_BRACKET" ELSE "OTHER"

\* the single-character token scan() ends with
char_token(c) == Token(CharTag(c), <<c>>)

\* scan() after the test peek == '$' && read_next('{')
scan_dollar_k(cs, rn) ==
    IF rn.r.k # "Ok" THEN rn
    ELSE IF rn.r.val THEN scan_var(cs, rn.L, <<>>)
    ELSE LRet(rn.L, Ok(char_token(rn.L.peek)))

\* the variable arm of scan() and the single-character token after it
scan_dollar(cs, L) ==
    scan_dollar_k(cs, IF L.peek = "$" THEN read_next(cs, L, "{") ELSE LRet(L, Ok(FALSE)))

\* scan() after skip_blank_and_read
scan_k(cs, sk, checks) ==
    IF sk.r.k # "Ok" THEN sk
    ELSE IF sk.L.peek \in {"I", "M", "A", "O", "E"} THEN scan_keyword(cs, sk.L)
    ELSE IF is_numeric(sk.L.peek) THEN scan_num(cs, sk.L, 0, checks)
    ELSE scan_dollar(cs, sk.L)

\* Lexer::scan: the next token, READ_TO_END, or a lexical error
scan(cs, L, checks) == scan_k(cs, skip_blank_and_read(cs, L), checks)

(***************************************************************************)
(* The Parser.  Its mutable state is the record [L, look]: the lexer state *)
(* and look_token.  Every operation returns the new state P and its        *)
(* Result r.                                                               *)
(***************************************************************************)
Par(L, look) == [L |-> L, look |-> look]
PRet(P, r) == [P |-> P, r |-> r]

\* a move_token that takes the end of the input for a lexer error like any other
move_token_k_end_is_error(P, sc) ==
    IF sc.r.k = "Ok" THEN PRet(Par(sc.L, sc.r.val), Ok(TRUE))
    ELSE IF sc.r.k = "Panic" THEN PRet(Par(sc.L, P.look), sc.r)
    ELSE PRet(Par(sc.L, P.look), Err("LEXER_FAILED"))

\* move_token after scan: a token fills look_token, the end of input is Ok(false)
move_token_k(P, sc) ==
    IF sc.r.k = "Ok" THEN PRet(Par(sc.L, sc.r.val), Ok(TRUE))
    ELSE IF sc.r.k = "Panic" THEN PRet(Par(sc.L, P.look), sc.r)
    ELSE IF sc.r.code = "READ_TO_END" THEN PRet(Par(sc.L, P.look), Ok(FALSE))
    ELSE PRet(Par(sc.L, P.look), Err("LEXER_FAILED"))

\* Parser::move_token
move_token(cs, P, checks) == move_token_k(P, scan(cs, P.L, checks))

\* args_add checking the arity of MOD, EQUALS and IN when it builds the node
make_node_arity(tag, args) ==
    CASE tag = "AND" -> Ok(OpNode("And", args))
      [] tag = "OR" -> Ok(OpNode("Or", args))
      [] tag = "MOD" -> IF Len(args) # 2 THEN Err("NOT_ENOUGH_ARGS") ELSE Ok(OpNode("Mod", args))
      [] tag = "IN" -> IF Len(args) < 2 THEN Err("NOT_ENOUGH_ARGS") ELSE Ok(OpNode("In", args))
      [] tag = "EQUALS" ->
            IF Len(args) # 2 THEN Err("NOT_ENOUGH_ARGS") ELSE Ok(OpNode("Equals", args))
      [] OTHER -> Err("NOT_SUPP_OPER")

\* the match on tag that closes args_add: the operator node built from the children
make_node(tag, args) ==
    CASE tag = "AND" -> Ok(OpNode("And", args))
      [] tag = "OR" -> Ok(OpNode("Or", args))
      [] tag = "MOD" -> Ok(OpNode("Mod", args))
      [] tag = "IN" -> Ok(OpNode("In", args))
      [] tag = "EQUALS" -> Ok(OpNode("Equals", args))
      [] OTHER -> Err("NOT_SUPP_OPER")

\* for _ in 0..10000 in args_add
ArgsCap == 10000

RECURSIVE expr(_, _, _)
RECURSIVE args_loop(_, _, _, _, _, _)

\* args_add at RIGHT_BRACKET, after the move_token that consumes it
args_close(mv, tag, args) ==
    IF mv.r.k # "Ok" THEN mv ELSE PRet(mv.P, make_node(tag, args))

\* args.push(self.expr()?)
args_push(cs, e, checks, tag, args, n) ==
    IF e.r.k # "Ok" THEN e
    ELSE args_loop(cs, e.P, checks, tag, Append(args, e.r.val), n + 1)

\* an args_add that takes the end of the input as the end of the argument list
args_moved_end_closes(cs, mv, checks, tag, args, n) ==
    IF mv.r.k # "Ok" THEN mv
    ELSE IF ~mv.r.val THEN PRet(mv.P, make_node(tag, args))
    ELSE IF mv.P.look # Nothing /\ mv.P.look.tag = "RIGHT_BRACKET"
         THEN args_close(move_token(cs, mv.P, checks), tag, args)
    ELSE args_push(cs, expr(cs, mv.P, checks), checks, tag, args, n)

\* one iteration of args_add after its move_token
args_moved(cs, mv, checks, tag, args, n) ==
    IF mv.r.k # "Ok" THEN mv
    ELSE IF ~mv.r.val THEN PRet(mv.P, Err("FORMAT_NOT_MATCH"))
    ELSE IF mv.P.look # Nothing /\ mv.P.look.tag = "RIGHT_BRACKET"
         THEN args_close(move_token(cs, mv.P, checks), tag, args)
    ELSE args_push(cs, expr(cs, mv.P, checks), checks, tag, args, n)

\* the loop of Parser::args_add, from its n-th iteration on
args_loop(cs, P, checks, tag, args, n) ==
    IF n >= ArgsCap THEN PRet(P, Err("OTHER"))
    ELSE args_moved(cs, move_token(cs, P, checks), checks, tag, args, n)

\* Parser::args_add
args_add(cs, P, checks, tag) == args_loop(cs, P, checks, tag, <<>>, 0)

\* expr at LEFT_BRACKET, after its move_token: the match on the operator keyword
expr_oper(cs, mv, checks) ==
    IF mv.r.k # "Ok" THEN mv
    ELSE IF mv.P.look.tag \in {"AND", "OR", "MOD", "EQUALS", "IN"}
         THEN args_add(cs, mv.P, checks, mv.P.look.tag)
    ELSE PRet(mv.P, Err("NOT_SUPP_OPER"))

\* a leaf arm that consumes its token
leaf_moved(mv, leaf) == IF mv.r.k # "Ok" THEN mv ELSE PRet(mv.P, Ok(leaf))

\* an expr that moves past the token of the leaf it returns
expr_consuming(cs, P, checks) ==
    IF P.look = Nothing THEN PRet(P, Err("OTHER"))
    ELSE CASE P.look.tag = "LEFT_BRACKET" -> expr_oper(cs, move_token(cs, P, checks), checks)
           [] P.look.tag = "NUM" ->
                IF ParseI64(P.look.lexeme).ok
                THEN leaf_moved(move_token(cs, P, checks), Leaf("Num", P.look.lexeme))
                ELSE PRet(P, Err("OTHER"))
           [] P.look.tag = "STR" ->
                leaf_moved(move_token(cs, P, checks), Leaf("Str", P.look.lexeme))
           [] P.look.tag = "VAR" ->
                leaf_moved(move_token(cs, P, checks), Leaf("Var", P.look.lexeme))
           [] OTHER -> PRet(P, Err("OTHER"))

\* Parser::expr
expr(cs, P, checks) ==
    IF P.look = Nothing THEN PRet(P, Err("OTHER"))
    ELSE CASE P.look.tag = "LEFT_BRACKET" -> expr_oper(cs, move_token(cs, P, checks), checks)
           [] P.look.tag = "NUM" ->
                IF ParseI64(P.look.lexeme).ok THEN PRet(P, Ok(Leaf("Num", P.look.lexeme)))
                ELSE PRet(P, Err("OTHER"))
           [] P.look.tag = "STR" -> PRet(P, Ok(Leaf("Str", P.look.lexeme)))
           [] P.look.tag = "VAR" -> PRet(P, Ok(Leaf("Var", P.look.lexeme)))
           [] OTHER -> PRet(P, Err("OTHER"))

\* match_term on a matching tag, after its move_token
match_moved(mv) == IF mv.r.k # "Ok" THEN mv ELSE PRet(mv.P, Ok(TRUE))

\* a match_term that moves past the lookahead whatever its tag is
match_term_any_tag(cs, P, checks, tag) ==
    IF P.look = Nothing THEN PRet(P, Err("NO_TOKEN_MATCH"))
    ELSE match_moved(move_token(cs, P, checks))

\* Parser::match_term
match_term(cs, P, checks, tag) ==
    IF P.look = Nothing THEN PRet(P, Err("NO_TOKEN_MATCH"))
    ELSE IF P.look.tag = tag THEN match_moved(move_token(cs, P, checks))
    ELSE PRet(P, Err("NOT_MATCH"))

\* parse() after match_term: the AST of expr() is returned
parse_end(mt, r) == IF mt.r.k # "Ok" THEN mt ELSE PRet(mt.P, r)

\* parse() after expr()
parse_expr(cs, e, checks) ==
    IF e.r.k # "Ok" THEN e
    ELSE parse_end(match_term(cs, e.P, checks, "RIGHT_BRACKET"), e.r)

\* parse() after its first move_token
parse_first(cs, mv, checks) ==
    IF mv.r.k # "Ok" THEN mv
    ELSE IF ~mv.r.val THEN PRet(mv.P, Err("OTHER"))
    ELSE parse_expr(cs, expr(cs, mv.P, checks), checks)

\* Parser::parse
parse(cs, P, checks) == parse_first(cs, move_token(cs, P, checks), checks)

(***************************************************************************)
(* Contexts: HashMap<String, Value>, a map from some of the names to       *)
(* values.                                                                 *)
(***************************************************************************)
Names == {<<"x">>}

\* the values a context may hold for a name
CtxValues ==
    {IntV(I64Min), IntV(0), IntV(1), IntV(2), IntV(3), BoolV(TRUE), BoolV(FALSE),
     StrV(<<"1">>)}

Contexts == UNION {[S -> CtxValues] : S \in SUBSET Names}

EmptyCtx == << >>

(***************************************************************************)
(* Directly built ASTs (a tree can be built without the parser): an        *)
(* operator node over at most MaxArgs children taken from EvalArgs.        *)
(***************************************************************************)
EvalArgs ==
    {Leaf("Num", <<"2">>), Leaf("Num", <<"3">>), Leaf("Num", <<"-", "1">>),
     Leaf("Num", <<"a">>), Leaf("Str", <<"1">>), Leaf("Bool", <<"T", "r", "u", "e">>),
     Leaf("Var", <<"x">>),
     OpNode("Mod", <<Leaf("Num", <<"2">>), Leaf("Num", <<"0">>)>>), OpNode("Or", <<>>)}

SeqsUpTo(S, n) == UNION {[1..k -> S] : k \in 0..n}

EvalTrees == {OpNode(kind, args) : kind \in OpKinds, args \in SeqsUpTo(EvalArgs, MaxArgs)}

(***************************************************************************)
(* Evaluation of a directly built AST.                                     *)
(***************************************************************************)
InitEval ==
    /\ overflow_checks = FALSE
    /\ rule = Nothing
    /\ chars = <<>>
    /\ cur_step = -1
    /\ peek = NoChar
    /\ look_token = Nothing
    /\ \E t \in EvalTrees : ast = Ok(t)
    /\ ctx = EmptyCtx
    /\ value = Nothing
    /\ again = FALSE
    /\ from_step = -1
    /\ scanned = Nothing
    /\ tokens = <<>>

\* an eval that drains the children it has visited out of the node
Eval_draining(c) ==
    /\ ast.k = "Ok"
    /\ ctx' = c
    /\ value' = eval(ast.val, c)
    /\ again' = (value # Nothing /\ c = ctx)
    /\ ast' = IF ast.val.kind \in OpKinds /\ ast.val.args # <<>>
              THEN Ok(OpNode(ast.val.kind, Tail(ast.val.args)))
              ELSE ast
    /\ UNCHANGED <<overflow_checks, rule, chars, cur_step, peek, look_token,
                   from_step, scanned, tokens>>

\* root.eval(Arc::new(c)) on the AST held in ast
Eval(c) ==
    /\ ast.k = "Ok"
    /\ ctx' = c
    /\ value' = eval(ast.val, c)
    /\ again' = (value # Nothing /\ c = ctx)
    /\ UNCHANGED <<overflow_checks, rule, chars, cur_step, peek, look_token, ast,
                   from_step, scanned, tokens>>

NextEval == \E c \in Contexts : Eval(c)

SpecEval == InitEval /\ [][NextEval]_vars

(***************************************************************************)
(* Rule expressions given to the parser: the trees of at most MaxNodes     *)
(* nodes whose root is an operator, written out as text.                   *)
(***************************************************************************)
RuleLeaves ==
    {Leaf("Num", <<"0">>), Leaf("Num", <<"5">>), Leaf("Var", <<"x">>), Leaf("Str", <<"5">>)}

RECURSIVE TreesOfSize(_)
RECURSIVE ForestsOfSize(_)

\* the sequences of trees with n nodes in all
ForestsOfSize(n) ==
    IF n = 0 THEN {<<>>}
    ELSE UNION {{<<t>> \o f : t \in TreesOfSize(j), f \in ForestsOfSize(n - j)} : j \in 1..n}

TreesOfSize(n) ==
    (IF n = 1 THEN RuleLeaves ELSE {})
        \cup {OpNode(kind, args) : kind \in OpKinds, args \in ForestsOfSize(n - 1)}

Rules == UNION {{t \in TreesOfSize(n) : t.kind \in OpKinds} : n \in 1..MaxNodes}

Keyword(kind) ==
    CASE kind = "And" -> <<"A", "N", "D">>
      [] kind = "Or" -> <<"O", "R">>
      [] kind = "Mod" -> <<"M", "O", "D">>
      [] kind = "In" -> <<"I", "N">>
      [] kind = "Equals" -> <<"E", "Q", "U", "A", "L", "S">>

RECURSIVE Render(_)
RECURSIVE RenderArgs(_, _)

RenderArgs(args, i) ==
    IF i > Len(args) THEN <<>> ELSE <<" ">> \o Render(args[i]) \o RenderArgs(args, i + 1)

\* the text of a rule expression: ( OPER arg ... ), 5, ${x}, "5"
Render(t) ==
    CASE t.kind \in OpKinds -> <<"(">> \o Keyword(t.kind) \o RenderArgs(t.args, 1) \o <<")">>
      [] t.kind = "Num" -> t.lexeme
      [] t.kind = "Var" -> <<"$", "{">> \o t.lexeme \o <<"}">>
      [] t.kind = "Str" -> <<"\"">> \o t.lexeme \o <<"\"">>

(***************************************************************************)
(* The pipeline: Parser::create(content), then parse(), then eval of the   *)
(* AST parse() returned.                                                   *)
(***************************************************************************)
Init ==
    /\ overflow_checks \in BOOLEAN
    /\ rule \in Rules
    /\ chars = Render(rule)
    /\ cur_step = -1
    /\ peek = NoChar
    /\ look_token = Nothing
    /\ ast = Nothing
    /\ ctx = EmptyCtx
    /\ value = Nothing
    /\ again = FALSE
    /\ from_step = -1
    /\ scanned = Nothing
    /\ tokens = <<>>

\* the state parse() leaves behind and the Result it returned
Parsed(p) ==
    /\ cur_step' = p.P.L.cur_step
    /\ peek' = p.P.L.peek
    /\ look_token' = p.P.look
    /\ ast' = p.r

\* parser.parse(), called once on the created parser
Parse ==
    /\ ast = Nothing
    /\ Parsed(parse(chars, Par(Lex(cur_step, peek), look_token), overflow_checks))
    /\ UNCHANGED <<overflow_checks, rule, chars, ctx, value, again, from_step, scanned,
                   tokens>>

Next == Parse \/ \E c \in Contexts : Eval(c)

Spec == Init /\ [][Next]_vars

(***************************************************************************)
(* The pipeline on any text, well-formed or not: the rule content is at    *)
(* most MaxWords words, written with one space between two words except    *)
(* after an opening and before a closing parenthesis, and with or without  *)
(* a blank at the end.                                                     *)
(***************************************************************************)
MaxWords == 5

WAnd == <<"A", "N", "D">>
WXor == <<"X", "O", "R">>
WOne == <<"1">>
WVar == <<"$", "{", "x", "}">>
\* the smallest number literal above u32::MAX
WBig == to_string(U32Max + 1)

\* a reference with a character that no identifier may hold
WBad == <<"$", "{", "-", "}">>

Words == {<<"(">>, <<")">>, WAnd, WXor, WOne, WVar, WBig, WBad, <<ThreeQuarters>>}

RECURSIVE WordsFrom(_, _)
\* the words ws[i..] written out
WordsFrom(ws, i) ==
    IF i > Len(ws) THEN <<>>
    ELSE IF i = Len(ws) THEN ws[i]
    ELSE IF ws[i] = <<"(">> \/ ws[i + 1] = <<")">> THEN ws[i] \o WordsFrom(ws, i + 1)
    ELSE ws[i] \o <<" ">> \o WordsFrom(ws, i + 1)

\* the text of the words ws, with a blank at the end when blank
WordsText(ws, blank) == WordsFrom(ws, 1) \o (IF blank THEN <<" ">> ELSE <<>>)

InitWords ==
    /\ overflow_checks \in BOOLEAN
    /\ \E ws \in SeqsUpTo(Words, MaxWords), b \in BOOLEAN :
          /\ rule = [words |-> ws, blank |-> b]
          /\ chars = WordsText(ws, b)
    /\ cur_step = -1
    /\ peek = NoChar
    /\ look_token = Nothing
    /\ ast = Nothing
    /\ ctx = EmptyCtx
    /\ value = Nothing
    /\ again = FALSE
    /\ from_step = -1
    /\ scanned = Nothing
    /\ tokens = <<>>

SpecWords == InitWords /\ [][Next]_vars

(***************************************************************************)
(* The lexer driven directly, as its tests do: Lexer::create(content),     *)
(* then scan() again and again, every token pushed onto tokens.  The       *)
(* parser goes on calling scan() after the end of the input, which is      *)
(* followed here for MaxPastEnd calls.  The contents are the texts made of *)
(* at most MaxPieces pieces, and the contents of the three tests.          *)
(***************************************************************************)
MaxPieces == 3
MaxPastEnd == 2

LexPieces ==
    {<<"A">>, <<"A", "N">>, <<"D">>, <<"X">>, <<"I">>, <<"N">>,
     <<"E", "Q", "U", "A", "L">>, <<"S">>, <<"0">>, <<"7">>, <<"1">>, <<" ">>,
     <<"$">>, <<"$", "{">>, <<"}">>, <<"a">>, <<"-">>, <<ThreeQuarters>>, <<"(">>,
     <<")">>, WBig}

RECURSIVE Concat(_, _)
\* the pieces ps[i..] written one after the other
Concat(ps, i) == IF i > Len(ps) THEN <<>> ELSE ps[i] \o Concat(ps, i + 1)

\* "( 123 ${i123} IN EQUALS NOT MOD OR AND) ${123} )"
TestSimpleTokenSplit ==
    <<"(", " ", "1", "2", "3", " ", "$", "{", "i", "1", "2", "3", "}", " ", "I", "N", " ",
      "E", "Q", "U", "A", "L", "S", " ", "N", "O", "T", " ", "M", "O", "D", " ", "O", "R",
      " ", "A", "N", "D", ")", " ", "$", "{", "1", "2", "3", "}", " ", ")">>

\* "(AND (IN (MOD 12) 1) (IN 1 123 4))"
TestRealExpr ==
    <<"(", "A", "N", "D", " ", "(", "I", "N", " ", "(", "M", "O", "D", " ", "1", "2", ")",
      " ", "1", ")", " ", "(", "I", "N", " ", "1", " ", "1", "2", "3", " ", "4", ")", ")">>

\* "asdf dsa fda sfE fdf ae 123123 2321 #${123} asdfdsf"
TestNotUseContent ==
    <<"a", "s", "d", "f", " ", "d", "s", "a", " ", "f", "d", "a", " ", "s", "f", "E", " ",
      "f", "d", "f", " ", "a", "e", " ", "1", "2", "3", "1", "2", "3", " ", "2", "3", "2",
      "1", " ", "#", "$", "{", "1", "2", "3", "}", " ", "a", "s", "d", "f", "d", "s", "f">>

LexTexts ==
    {Concat(ps, 1) : ps \in SeqsUpTo(LexPieces, MaxPieces)}
        \cup {TestSimpleTokenSplit, TestRealExpr, TestNotUseContent}

InitLex ==
    /\ overflow_checks \in BOOLEAN
    /\ rule = Nothing
    /\ chars \in LexTexts
    /\ cur_step = -1
    /\ peek = NoChar
    /\ look_token = Nothing
    /\ ast = Nothing
    /\ ctx = EmptyCtx
    /\ value = Nothing
    /\ again = FALSE
    /\ from_step = -1
    /\ scanned = Nothing
    /\ tokens = <<>>

\* the state scan() leaves behind and the Result it returned
Scanned(sc) ==
    /\ cur_step' = sc.L.cur_step
    /\ peek' = sc.L.peek
    /\ scanned' = sc.r

\* tokens.push(scan_result) when scan() returned a token
Pushed(r) == tokens' = IF r.k = "Ok" THEN Append(tokens, r.val) ELSE tokens

\* lexer.scan(), called as long as the call before it returned a token, and a few
\* times more after the end of the input
Scan ==
    /\ \/ scanned = Nothing
       \/ scanned.k = "Ok"
       \/ scanned = Err("READ_TO_END") /\ cur_step < Len(chars) + MaxPastEnd
    /\ from_step' = cur_step
    /\ Scanned(scan(chars, Lex(cur_step, peek), overflow_checks))
    /\ Pushed(scan(chars, Lex(cur_step, peek), overflow_checks).r)
    /\ UNCHANGED <<overflow_checks, rule, chars, look_token, ast, ctx, value, again>>

NextLex == Scan

SpecLex == InitLex /\ [][NextLex]_vars

(***************************************************************************)
(* Claims about the evaluator, checked under SpecEval.                     *)
(***************************************************************************)
\* an eval call on the operator node of kind `kind` has returned
Evaluated(kind) == ast.k = "Ok" /\ value # Nothing /\ ast.val.kind = kind

\* what the i-th child of the root evaluates to in the context of the last call
ChildR(i) == eval(ast.val.args[i], ctx).r
NArgs == Len(ast.val.args)
Iota(n) == [i \in 1..n |-> i]
Min(S) == CHOOSE m \in S : \A k \in S : m <= k

\* the children at which a left-to-right walk over `cand` ends early: those that
\* fail, those whose value is one of `hits`, and (when strs) those whose value is a Str
StopsAt(cand, hits, strs) ==
    {i \in cand : \/ ChildR(i).k # "Ok"
                  \/ ChildR(i).val \in hits
                  \/ strs /\ ChildR(i).val.tag = "STR"}

\* C3: In.eval with n >= 2 children evaluates child 0 as the probe and compares it
\* with the children at 0-based indices 1..n-2 only, left to right: the result is
\* Bool(true) at the first one equal to the probe and Bool(false) when there is
\* none; the children evaluated are exactly the probe and those up to the first
\* match, and the last child is never evaluated.
C3_InSkipsLast ==
    (Evaluated("In") /\ NArgs >= 2 /\ ChildR(1).k = "Ok") =>
        LET stops == StopsAt(2..(NArgs - 1), {ChildR(1).val}, FALSE)
        IN  /\ stops = {} =>
                /\ value.r = Ok(BoolV(FALSE))
                /\ value.seen = Iota(NArgs - 1)
            /\ (stops # {} /\ ChildR(Min(stops)).k = "Ok") =>
                /\ value.r = Ok(BoolV(TRUE))
                /\ value.seen = Iota(Min(stops))
            /\ \A j \in 1..Len(value.seen) : value.seen[j] # NArgs
            /\ NArgs = 2 => value.r = Ok(BoolV(FALSE))

\* In[${x}, 2, 3] with {x: Int(3)}: only the excluded last child matches, the result is Bool(false)
C3_Witness ==
    /\ Evaluated("In")
    /\ ast.val.args = <<Leaf("Var", <<"x">>), Leaf("Num", <<"2">>), Leaf("Num", <<"3">>)>>
    /\ ctx = (<<"x">> :> IntV(3))
    /\ value.r = Ok(BoolV(FALSE))

\* C4: evaluating a Mod node whose second operand evaluates to Int(0) returns an
\* explicit evaluation error, never an uncontrolled fault.
C4_ModByZeroIsError ==
    (Evaluated("Mod") /\ NArgs >= 2 /\ ChildR(1).k = "Ok" /\ ChildR(2) = Ok(IntV(0))) =>
        value.r.k = "Err"

\* C5: Or.eval walks its children left to right and returns Bool(true) at the first
\* child whose value is Int(1) or Bool(false); a Str child reached first makes the
\* result FORMAT_NOT_MATCH; any other Int and Bool(true) do not stop the walk; with no
\* stop (also with no children) the result is Bool(false).
C5_OrShortCircuit ==
    Evaluated("Or") =>
        LET stops == StopsAt(1..NArgs, {IntV(1), BoolV(FALSE)}, TRUE)
            m == Min(stops)
        IN  /\ stops = {} => value = Ret(Ok(BoolV(FALSE)), Iota(NArgs))
            /\ (stops # {} /\ ChildR(m).k = "Ok") =>
                /\ value.seen = Iota(m)
                /\ value.r = IF ChildR(m).val.tag = "STR" THEN Err("FORMAT_NOT_MATCH")
                              ELSE Ok(BoolV(TRUE))

\* Or[${x}] with x absent from the context is Bool(true)
C5_Witness ==
    /\ Evaluated("Or")
    /\ ast.val.args = <<Leaf("Var", <<"x">>)>>
    /\ ctx = EmptyCtx
    /\ value.r = Ok(BoolV(TRUE))

\* C6: And.eval walks its children left to right and returns Bool(false) at the first
\* child whose value is Int(0) or Bool(false), evaluating no later child; a Str child
\* reached first makes the result FORMAT_NOT_MATCH; with no stop (also with no
\* children) the result is Bool(true).
C6_AndShortCircuit ==
    Evaluated("And") =>
        LET stops == StopsAt(1..NArgs, {IntV(0), BoolV(FALSE)}, TRUE)
            m == Min(stops)
        IN  /\ stops = {} => value = Ret(Ok(BoolV(TRUE)), Iota(NArgs))
            /\ (stops # {} /\ ChildR(m).k = "Ok") =>
                /\ value.seen = Iota(m)
                /\ value.r = IF ChildR(m).val.tag = "STR" THEN Err("FORMAT_NOT_MATCH")
                              ELSE Ok(BoolV(FALSE))

\* And[${x}, 2 % 0] with {x: Int(0)}: Bool(false) at the first child, the faulting second child never evaluated
C6_Witness ==
    /\ Evaluated("And")
    /\ ast.val.args = <<Leaf("Var", <<"x">>), OpNode("Mod", <<Leaf("Num", <<"2">>), Leaf("Num", <<"0">>)>>)>>
    /\ ctx = (<<"x">> :> IntV(0))
    /\ value = Ret(Ok(BoolV(FALSE)), <<1>>)

\* C7: Equals.eval on a node with two children returns Bool(true) iff the two values
\* have the same variant and the same payload, Bool(false) otherwise; Int(1) is not
\* Str("1") and Int(0) is not Bool(false).
C7_EqualsTypeStrict ==
    (Evaluated("Equals") /\ NArgs = 2 /\ ChildR(1).k = "Ok" /\ ChildR(2).k = "Ok") =>
        LET a == ChildR(1).val
            b == ChildR(2).val
        IN  /\ value.r = Ok(BoolV(a = b))
            /\ (a.tag # b.tag) => value.r = Ok(BoolV(FALSE))

\* Equals[${x}, Or[]] with {x: Int(0)}: Int(0) against Bool(false) is Bool(false)
C7_Witness ==
    /\ Evaluated("Equals")
    /\ ast.val.args = <<Leaf("Var", <<"x">>), OpNode("Or", <<>>)>>
    /\ ctx = (<<"x">> :> IntV(0))
    /\ value.r = Ok(BoolV(FALSE))

\* C9: Mod.eval on a node with two children: when both values are Int(a), Int(b) with
\* b # 0 the result is Int(a % b), the remainder with the sign of a, for every such
\* pair, i64::MIN with -1 included; when a value is not an Int the result is
\* ARG_NOT_CORRECT.
C9_ModRemainder ==
    (Evaluated("Mod") /\ NArgs = 2 /\ ChildR(1).k = "Ok" /\ ChildR(2).k = "Ok") =>
        LET a == ChildR(1).val
            b == ChildR(2).val
        IN  /\ (a.tag = "INT" /\ b.tag = "INT" /\ b.i # 0) => value.r = Ok(IntV(Rem(a.i, b.i)))
            /\ (a.tag # "INT" \/ b.tag # "INT") => value.r = Err("ARG_NOT_CORRECT")

RECURSIVE NoVars(_)
\* the tree with every variable reference replaced by a literal that is Bool(false)
NoVars(t) ==
    IF t.kind \in OpKinds THEN OpNode(t.kind, [i \in 1..Len(t.args) |-> NoVars(t.args[i])])
    ELSE IF t.kind = "Var" THEN Leaf("Bool", <<"f", "a", "l", "s", "e">>)
    ELSE t

\* C11: a variable reference evaluates to Bool(false), never to an error, when its
\* name is absent from the context, and to the stored Value when it is present;
\* hence an eval against the empty context returns what the same tree returns with
\* every variable reference replaced by Bool(false).
C11_VarLookup ==
    (ast.k = "Ok" /\ value # Nothing) =>
        /\ \A i \in 1..NArgs :
              ast.val.args[i].kind = "Var" =>
                  ChildR(i) = IF ast.val.args[i].lexeme \in DOMAIN ctx
                              THEN Ok(ctx[ast.val.args[i].lexeme])
                              ELSE Ok(BoolV(FALSE))
        /\ ctx = EmptyCtx => value = eval(NoVars(ast.val), EmptyCtx)

\* Equals[${x}, Or[]] against the empty context: the absent x is Bool(false), equal to Or[]
C11_Witness ==
    /\ Evaluated("Equals")
    /\ ast.val.args = <<Leaf("Var", <<"x">>), OpNode("Or", <<>>)>>
    /\ ctx = EmptyCtx
    /\ value.r = Ok(BoolV(TRUE))

C26_ChildErrorPropagates ==
    (ast.k = "Ok" /\ value # Nothing) =>
        \A j \in 1..Len(value.seen) :
            ChildR(value.seen[j]).k # "Ok" =>
                /\ j = Len(value.seen)
                /\ value.r = ChildR(value.seen[j])

\* In[2, a, 2]: the second child is no number, EVAL_NUM_FAILED is returned and the third child not evaluated
C26_Witness ==
    /\ Evaluated("In")
    /\ ast.val.args = <<Leaf("Num", <<"2">>), Leaf("Num", <<"a">>), Leaf("Num", <<"2">>)>>
    /\ value = Ret(Err("EVAL_NUM_FAILED"), <<1, 2>>)

\* C28: evaluating a Mod or an Equals node whose number of children is not exactly
\* two fails with an error, with three or more children as with fewer than two.
C28_ExactlyTwoChildren ==
    ((Evaluated("Mod") \/ Evaluated("Equals")) /\ NArgs # 2) => value.r.k = "Err"

(***************************************************************************)
(* Claims about the lexer, checked under SpecLex.  Positions are 1-based   *)
(* indices into chars; cur_step is 0-based.                                *)
(***************************************************************************)
RECURSIVE FirstNonBlank(_, _)
\* the first position from i on that holds no space or tab, 0 when there is none
FirstNonBlank(cs, i) ==
    IF i > Len(cs) THEN 0
    ELSE IF cs[i] = " " \/ cs[i] = "\t" THEN FirstNonBlank(cs, i + 1)
    ELSE i

\* the position the last scan() started its token at, 0 when it found none
Start == FirstNonBlank(chars, from_step + 2)

\* the last scan() started a token at a character of the set S
StartsIn(S) == scanned # Nothing /\ Start # 0 /\ chars[Start] \in S

RECURSIVE RunEnd(_, _, _)
\* the last position of the longest run of characters of S that begins at i
\* (i - 1 when the run is empty)
RunEnd(cs, i, S) == IF i <= Len(cs) /\ cs[i] \in S THEN RunEnd(cs, i + 1, S) ELSE i - 1

Digits == {"0", "1", "2", "3", "4", "5", "6", "7", "8", "9"}
AlphaNum == Digits \cup LowerLetters \cup UpperLetters

\* the spelling of the keyword tried at the start of the last scan()
Spelling == KeywordAt(chars[Start]).lexeme

\* the characters from Start on complete the keyword, all of them in the input
Completes ==
    /\ Start + Len(Spelling) - 1 <= Len(chars)
    /\ SubSeq(chars, Start, Start + Len(Spelling) - 1) = Spelling

\* some character after the initial letter is in the input and is not the
\* keyword's, the ones before it being the keyword's
Mismatches ==
    \E j \in 2..Len(Spelling) :
        /\ Start + j - 1 <= Len(chars)
        /\ SubSeq(chars, Start, Start + j - 2) = SubSeq(Spelling, 1, j - 1)
        /\ chars[Start + j - 1] # Spelling[j]

\* C16: a scan() that starts at I, M, A, O or E emits the operator token and leaves
\* the cursor on the keyword's last letter when the following characters complete
\* the keyword; when a following character does not match it emits OTHER with the
\* initial letter as lexeme and leaves the cursor on that initial letter, so that
\* the next scan starts at the character right after it.
C16_KeywordOrRestore ==
    StartsIn({"I", "M", "A", "O", "E"}) =>
        /\ Completes =>
              /\ scanned = Ok(KeywordAt(chars[Start]))
              /\ cur_step = Start + Len(Spelling) - 2
        /\ Mismatches =>
              /\ scanned = Ok(Token("OTHER", <<chars[Start]>>))
              /\ cur_step = Start - 1
              /\ peek = chars[Start]

\* ANX: the match fails at its second letter, the scan emits OTHER('A') and the cursor is back on the A
C16_Witness ==
    /\ chars = <<"A", "N", "X">>
    /\ from_step = -1
    /\ scanned = Ok(Token("OTHER", <<"A">>))
    /\ cur_step = 0

\* C17: the first token scanned from ANDX is OTHER('A'); no AND operator token is
\* produced.
C17_AndxIsOther ==
    (chars = <<"A", "N", "D", "X">> /\ from_step = -1 /\ scanned # Nothing) =>
        scanned = Ok(Token("OTHER", <<"A">>))

\* C18: a scan() that starts at a decimal digit, the longest run of digits being
\* followed by a character that is no digit, emits NUM with the run exactly as
\* written (leading zeros included) as lexeme and leaves the cursor on the last
\* digit, so that the next scan starts at the character after the run.
C18_NumLexemeAsWritten ==
    (StartsIn(Digits) /\ RunEnd(chars, Start, Digits) < Len(chars)) =>
        /\ scanned = Ok(Token("NUM", SubSeq(chars, Start, RunEnd(chars, Start, Digits))))
        /\ cur_step = RunEnd(chars, Start, Digits) - 1

\* the position after the name of a reference that begins with ${ at Start
AfterName == RunEnd(chars, Start + 2, AlphaNum) + 1

\* the last scan() started at $ followed by {
StartsVar == StartsIn({"$"}) /\ Start < Len(chars) /\ chars[Start + 1] = "{"

\* C19: a scan() that starts at ${ accumulates the characters from a-z, A-Z, 0-9 that
\* follow; at } it emits VAR with exactly the accumulated name as lexeme and leaves
\* the cursor on the }; at any other character it returns the lexical error OTHER,
\* which is not the end-of-input signal, and no token.
C19_VarOrLexicalError ==
    (StartsVar /\ AfterName <= Len(chars)) =>
        IF chars[AfterName] = "}"
        THEN /\ scanned = Ok(Token("VAR", SubSeq(chars, Start + 2, AfterName - 1)))
             /\ cur_step = AfterName - 1
        ELSE scanned = Err("OTHER")

\* C20: the name of a VAR token the lexer emits is one or more alphanumeric
\* characters; ${} is never emitted as a VAR token with the empty name.
C20_VarNameNotEmpty ==
    (scanned # Nothing /\ scanned.k = "Ok" /\ scanned.val.tag = "VAR") =>
        /\ Len(scanned.val.lexeme) >= 1
        /\ \A i \in 1..Len(scanned.val.lexeme) : scanned.val.lexeme[i] \in AlphaNum

KeywordInitials == {"I", "M", "A", "O", "E"}

\* C22: a scan() that starts at a character that begins neither a keyword, a digit
\* run, a ${ reference nor a parenthesis emits OTHER with exactly that character as
\* lexeme and consumes that character only; a $ followed by a character other than
\* { is such a character: OTHER('$'), the character after it scanned next.
C22_OtherSingleChar ==
    (/\ scanned # Nothing
     /\ Start # 0
     /\ chars[Start] \notin KeywordInitials \cup Digits \cup {"(", ")"}
     /\ chars[Start] = "$" => (Start < Len(chars) /\ chars[Start + 1] # "{")) =>
        /\ scanned = Ok(Token("OTHER", <<chars[Start]>>))
        /\ cur_step = Start - 1

\* C23: scan() returns READ_TO_END, no token and no lexical error, exactly when the
\* call ran out of characters: with only blanks left, with a digit or a
\* keyword-initial letter as the very last character, and inside a digit run, a
\* keyword match or a ${ reference that reaches the end of the input; once it has
\* been returned, every later scan() returns it again.
C23_EndOfInput ==
    /\ [](scanned # Nothing =>
            /\ scanned = Err("READ_TO_END") <=> cur_step >= Len(chars)
            /\ Start = 0 => scanned = Err("READ_TO_END")
            /\ (Start # 0 /\ Start = Len(chars)
                    /\ chars[Start] \in Digits \cup KeywordInitials) =>
                  scanned = Err("READ_TO_END")
            /\ (StartsIn(Digits) /\ RunEnd(chars, Start, Digits) = Len(chars)) =>
                  (scanned.k # "Ok" /\ scanned # Err("OTHER"))
            /\ (StartsIn(KeywordInitials) /\ Len(chars) - Start + 1 < Len(Spelling)
                    /\ SubSeq(chars, Start, Len(chars))
                          = SubSeq(Spelling, 1, Len(chars) - Start + 1)) =>
                  scanned = Err("READ_TO_END")
            /\ (StartsVar /\ AfterName > Len(chars)) => scanned = Err("READ_TO_END"))
    /\ [][scanned = Err("READ_TO_END") => scanned' = Err("READ_TO_END")]_vars

\* (7: the input ends inside the digit run, READ_TO_END, and READ_TO_END again at the next call
C23_Witness ==
    /\ chars = <<"(", "7">>
    /\ tokens = <<Token("LEFT_BRACKET", <<"(">>)>>
    /\ from_step >= Len(chars)
    /\ scanned = Err("READ_TO_END")

\* one more token, when the count of the rest is defined
Plus1(n) == IF n < 0 THEN -1 ELSE n + 1

RECURSIVE Expected(_, _)
\* the number of tokens of cs[i..] by the rule of C25: one per complete keyword,
\* per longest digit run, per ${name} reference and per other character that is no
\* blank; -1 when the text has a malformed reference or ends inside a token of
\* more than one character
Expected(cs, i) ==
    IF FirstNonBlank(cs, i) = 0 THEN 0
    ELSE LET p == FirstNonBlank(cs, i)
             kw == KeywordAt(cs[p]).lexeme
             q == RunEnd(cs, p, Digits)
             r == RunEnd(cs, p + 2, AlphaNum)
         IN  IF cs[p] \in KeywordInitials
             THEN IF p + Len(kw) - 1 <= Len(cs) /\ SubSeq(cs, p, p + Len(kw) - 1) = kw
                  THEN Plus1(Expected(cs, p + Len(kw)))
                  ELSE IF /\ Len(cs) - p + 1 < Len(kw)
                          /\ SubSeq(cs, p, Len(cs)) = SubSeq(kw, 1, Len(cs) - p + 1)
                  THEN -1
                  ELSE Plus1(Expected(cs, p + 1))
             ELSE IF cs[p] \in Digits
             THEN IF q = Len(cs) THEN -1 ELSE Plus1(Expected(cs, q + 1))
             ELSE IF cs[p] = "$" /\ p = Len(cs) THEN -1
             ELSE IF cs[p] = "$" /\ cs[p + 1] = "{"
             THEN IF r >= p + 2 /\ r < Len(cs) /\ cs[r + 1] = "}"
                  THEN Plus1(Expected(cs, r + 2))
                  ELSE -1
             ELSE Plus1(Expected(cs, p + 1))

\* C25: scan() called until its first error, on an input with no malformed
\* reference that does not end inside a token of more than one character, has
\* returned one token per complete keyword, per longest digit run, per ${name}
\* reference and per other character that is no blank; the contents of the three
\* tests give 14, 17 and 29 tokens.
C25_TokenCounts ==
    (scanned # Nothing /\ scanned.k # "Ok") =>
        /\ Expected(chars, 1) >= 0 => Len(tokens) = Expected(chars, 1)
        /\ chars = TestSimpleTokenSplit => Len(tokens) = 14
        /\ chars = TestRealExpr => Len(tokens) = 17
        /\ chars = TestNotUseContent => Len(tokens) = 29

\* C30: a scan() that returns a token leaves the cursor past where it was before
\* the call, also after the backtrack of a keyword or of a digit run; the tokens
\* scanned from an input are never more than its characters.
C30_CursorAdvances ==
    /\ (scanned # Nothing /\ scanned.k = "Ok") => cur_step > from_step
    /\ Len(tokens) <= Len(chars)
    /\ cur_step <= Len(chars) + MaxPastEnd

\* 7AX: after NUM and its backtrack, the keyword backtrack at A still leaves the cursor past the 7
C30_Witness ==
    /\ chars = <<"7", "A", "X">>
    /\ from_step = 0
    /\ scanned = Ok(Token("OTHER", <<"A">>))
    /\ cur_step = 1

(***************************************************************************)
(* Claims about the parser, checked under Spec: chars is the text of rule. *)
(***************************************************************************)
RECURSIVE HasStr(_)
\* the rule holds a quoted string literal somewhere
HasStr(t) ==
    IF t.kind \in OpKinds THEN \E i \in 1..Len(t.args) : HasStr(t.args[i])
    ELSE t.kind = "Str"

\* every argument of the rule is a number or a variable reference
LeafArgs(t) == \A i \in 1..Len(t.args) : t.args[i].kind \in {"Num", "Var"}

\* C1: for every operator expression ( OPER arg1 ... argn ) that parse() accepts,
\* the node built has exactly n children and its i-th child is the AST of arg_i, also
\* after a nested operator expression: the AST returned is the rule that was written.
C1_ChildrenAreTheArguments == ast.k = "Ok" => ast.val = rule

\* C2: parse() returns an AST, not an error, for every well-formed parenthesised
\* operator expression, whatever the depth and the position of nested expressions.
C2_WellFormedParses == (ast # Nothing /\ ~HasStr(rule)) => ast.k = "Ok"

\* C8: (EQUALS 5 "5") parses, its quoted text becoming a Str leaf, and evaluates to
\* Bool(false).
C8_QuotedStringParses ==
    (ast # Nothing /\ rule = OpNode("Equals", <<Leaf("Num", <<"5">>), Leaf("Str", <<"5">>)>>)) =>
        /\ ast = Ok(rule)
        /\ value # Nothing => value.r = Ok(BoolV(FALSE))

\* the rule with AND, which takes any number of arguments, as its operator
AsAnd(t) == OpNode("And", t.args)

\* C10: parse() never rejects an operator expression because of its argument count:
\* an expression over any number of leaf arguments parses to its node, whatever the
\* operator, and any expression is accepted exactly when it is accepted with AND as
\* its operator; a Mod, Equals or In node with fewer than two children fails only at
\* eval, with NOT_ENOUGH_ARGS.
C10_ArityCheckedAtEval ==
    /\ (ast # Nothing /\ LeafArgs(rule)) => ast = Ok(rule)
    /\ ast # Nothing =>
          (ast.k = "Ok" <=>
              parse(Render(AsAnd(rule)), Par(Lex(-1, NoChar), Nothing), overflow_checks).r.k = "Ok")
    /\ (ast.k = "Ok" /\ value # Nothing /\ ast.val.kind \in {"Mod", "Equals", "In"}
            /\ Len(ast.val.args) < 2) =>
          value.r = Err("NOT_ENOUGH_ARGS")

\* (MOD 5) parsed to Mod[5] and failed at eval with NOT_ENOUGH_ARGS
C10_Witness ==
    /\ rule = OpNode("Mod", <<Leaf("Num", <<"5">>)>>)
    /\ ast = Ok(rule)
    /\ value # Nothing
    /\ value.r = Err("NOT_ENOUGH_ARGS")

(***************************************************************************)
(* Claims about the parser on any text, checked under SpecWords: chars is  *)
(* the text of the words rule.words.                                       *)
(***************************************************************************)
\* C12: whenever what follows an opening parenthesis is not one of the operator
\* keywords (another word, a parenthesis, a number, or the end of the input),
\* parse() fails with NOT_SUPP_OPER, and it never panics.
C12_UnsupportedOperator ==
    (/\ ast # Nothing
     /\ rule.words # <<>>
     /\ rule.words[1] = <<"(">>
     /\ Len(rule.words) = 1 \/ rule.words[2] # WAnd) =>
        ast = Err("NOT_SUPP_OPER")

\* the words are operator expressions left open: every parenthesis is an opening
\* one followed by its operator keyword, every other word is a number or a
\* variable reference
OpenLists(ws) ==
    /\ ws # <<>>
    /\ ws[1] = <<"(">>
    /\ \A i \in 1..Len(ws) :
          /\ ws[i] \in {<<"(">>, WAnd, WOne, WVar}
          /\ ws[i] = <<"(">> => (i < Len(ws) /\ ws[i + 1] = WAnd)
          /\ ws[i] = WAnd => (i > 1 /\ ws[i - 1] = <<"(">>)

\* C13: when the input ends while an operator's argument list is still open, no
\* closing parenthesis seen, parse() fails with FORMAT_NOT_MATCH and returns no AST.
C13_UnterminatedList ==
    (ast # Nothing /\ OpenLists(rule.words)) => ast = Err("FORMAT_NOT_MATCH")

\* (AND 1 ${x} is parsed up to the end of the input and fails with FORMAT_NOT_MATCH
C13_Witness ==
    /\ rule = [words |-> <<<<"(">>, WAnd, WOne, WVar>>, blank |-> FALSE]
    /\ ast = Err("FORMAT_NOT_MATCH")

\* what parse() returns on the first k words alone
HeadParse(k) ==
    parse(WordsText(SubSeq(rule.words, 1, k), FALSE), Par(Lex(-1, NoChar), Nothing),
          overflow_checks).r

\* C14: what follows the closing parenthesis of the top-level expression is not
\* validated: when the first words of the input parse on their own, the input
\* parses too, and to the same AST.
C14_TrailingTokensIgnored ==
    ast # Nothing =>
        \A k \in 1..(Len(rule.words) - 1) : HeadParse(k).k = "Ok" => ast = HeadParse(k)

\* the token the lexer returns last for a word (the token itself, for a word that
\* is one token)
TokenOf(w) ==
    CASE w = <<"(">> -> Token("LEFT_BRACKET", w)
      [] w = <<")">> -> Token("RIGHT_BRACKET", w)
      [] w = WAnd -> Token("AND", w)
      [] w = WXor -> Token("OR", <<"O", "R">>)
      [] w = WOne -> Token("NUM", w)
      [] w = WVar -> Token("VAR", <<"x">>)

\* every word of ws is scanned to its tokens without a failure
Lexable(ws) == \A i \in 1..Len(ws) : ws[i] \in {<<"(">>, <<")">>, WAnd, WXor, WOne, WVar}

\* C24: move_token turns the lexer's end-of-input signal into Ok(false) and leaves
\* look_token as it was: after a parse() that read the input to its end, look_token
\* still holds the last token of the input; any other lexer error becomes
\* LEXER_FAILED; the end-of-input signal itself is never what parse() returns.
C24_MoveTokenAtEnd ==
    ast # Nothing =>
        /\ ast # Err("READ_TO_END")
        /\ (rule.words # <<>> /\ rule.words[1] = WBad) => ast = Err("LEXER_FAILED")
        /\ rule.words = <<>> => (ast = Err("OTHER") /\ look_token = Nothing)
        /\ (rule.words # <<>> /\ Lexable(rule.words) /\ rule.blank
                /\ cur_step >= Len(chars)) =>
              look_token = TokenOf(rule.words[Len(rule.words)])

\* ( and a blank: the end of the input is met after the parenthesis, which stays in look_token
C24_Witness ==
    /\ rule = [words |-> <<<<"(">>>>, blank |-> TRUE]
    /\ ast = Err("NOT_SUPP_OPER")
    /\ look_token = Token("LEFT_BRACKET", <<"(">>)

\* the first word is a number or a variable reference that the lexer returns as a
\* token (a number at the very end of the input is not returned)
LeafFirst ==
    /\ rule.words # <<>>
    /\ rule.words[1] \in {WOne, WVar}
    /\ rule.words[1] = WOne => (Len(rule.words) > 1 \/ rule.blank)

\* the words begin with (AND) and a further word that is one token and no closing
\* parenthesis
AfterOper ==
    /\ Len(rule.words) >= 4
    /\ SubSeq(rule.words, 1, 3) = <<<<"(">>, WAnd, <<")">>>>
    /\ rule.words[4] \in {<<"(">>, WAnd, WOne, WVar}
    /\ rule.words[4] = WOne => (Len(rule.words) > 4 \/ rule.blank)

\* C27: expr() entered with a NUM or VAR lookahead returns the leaf and consumes
\* nothing: look_token and the cursor stay on the leaf's token (parse() then fails
\* at it with NOT_MATCH); expr() on an operator expression returns with look_token
\* on the token after the closing parenthesis.
C27_ExprFrame ==
    ast # Nothing =>
        /\ LeafFirst =>
              /\ ast = Err("NOT_MATCH")
              /\ look_token = TokenOf(rule.words[1])
              /\ cur_step = Len(rule.words[1]) - 1
        /\ AfterOper =>
              /\ ast = Err("NOT_MATCH")
              /\ look_token = TokenOf(rule.words[4])
              /\ cur_step = 5 + Len(rule.words[4])

\* ${x} (AND: expr() returned the leaf of ${x} and left it in look_token
C27_Witness ==
    /\ rule = [words |-> <<WVar, <<"(">>, WAnd>>, blank |-> FALSE]
    /\ ast = Err("NOT_MATCH")
    /\ look_token = Token("VAR", <<"x">>)
    /\ cur_step = 3

\* C29: a decimal literal that fits in an i64 evaluates, through lexer, parser and
\* Num.eval, to Int of exactly its value, a literal above u32::MAX included: it is
\* not wrapped and causes no overflow fault.
C29_BigLiteralExact ==
    (ast # Nothing /\ rule.words = <<<<"(">>, WAnd, WBig, <<")">>>>) =>
        /\ ast.k = "Ok"
        /\ ast.val.kind = "And"
        /\ Len(ast.val.args) = 1
        /\ eval(ast.val.args[1], EmptyCtx).r = Ok(IntV(U32Max + 1))

\* the input begins, outside any parentheses, with a number or a variable reference
BareLeaf ==
    /\ rule.words # <<>>
    /\ rule.words[1] \in {WOne, WVar, WBig}

\* the lexer returns the bare leaf as a NUM or VAR token: a reference always, a
\* number when a character follows it and its digits gave no overflow fault
BareLeafToken ==
    /\ BareLeaf
    /\ rule.words[1] = WBig => ~overflow_checks
    /\ rule.words[1] # WVar => (Len(rule.words) > 1 \/ rule.blank)

\* the top-level expression as parse() gets it: expr() after the first move_token
TopExpr ==
    expr(chars, move_token(chars, Par(Lex(-1, NoChar), Nothing), overflow_checks).P,
         overflow_checks)

\* C31: parse() never returns an AST for an input whose top-level expression is a
\* bare leaf: once the leaf's token is the lookahead, parse() fails with NOT_MATCH
\* and the lookahead is still that NUM or VAR token; and whenever parse() returns
\* an AST, the input begins with an opening parenthesis, the AST is the one expr()
\* built, and the lookahead expr() left behind is a closing parenthesis.
C31_BareLeafNeverParses ==
    ast # Nothing =>
        /\ BareLeaf => ast.k # "Ok"
        /\ BareLeafToken =>
              /\ ast = Err("NOT_MATCH")
              /\ look_token # Nothing
              /\ look_token.tag \in {"NUM", "VAR"}
        /\ ast.k = "Ok" =>
              /\ rule.words[1] = <<"(">>
              /\ TopExpr.r = ast
              /\ TopExpr.P.look # Nothing
              /\ TopExpr.P.look.tag = "RIGHT_BRACKET"

\* 1 and a blank: the leaf Num is built, the NUM token is still the lookahead and
\* the closing-parenthesis check fails
C31_Witness ==
    /\ rule = [words |-> <<WOne>>, blank |-> TRUE]
    /\ ast = Err("NOT_MATCH")
    /\ look_token = Token("NUM", <<"1">>)

====
